---------------------------- MODULE Spec2Model ----------------------------
(***************************************************************************)
(* Point-generation and suitability-scoring pipeline of the plantation     *)
(* planner: compute_suitability, recommend_species, generate_grid, and the *)
(* plan assembly of app.py (generate_plantation_points_ml and the two      *)
(* generators it dispatches to, plus the map-click handler's truncation).  *)
(*                                                                         *)
(* Numbers are fixed point:                                                *)
(*   environmental factors (ndvi, water, soil)  1 unit = 0.0001            *)
(*   unrounded scores and jitter                1 unit = 0.001 point       *)
(*   rounded scores and raster values           1 unit = 0.1 point         *)
(*   latitudes, longitudes, radii               1 unit = 0.000001 degree   *)
(*   pixel rows and columns                     0-based integers           *)
(***************************************************************************)
EXTENDS Integers, Sequences, FiniteSets, TLC

VARIABLES
    pc,        \* position of the running call
    rng,       \* state of the process-wide random source (module random)
    useMl,     \* USE_ML_BACKEND
    lat, lon,  \* center coordinate
    raster,    \* suitability_map: NoRaster (None) or an array with shape and pixels
    numPoints, \* the sidebar slider value the click handler truncates to
    target,    \* num_points argument of generate_points_from_suitability
    cands,     \* suitable_coords/suitable_scores after the sort: <<y, x, score>>
    idx,       \* loop position in the generators' for loops (0-based)
    selected,  \* selected_points: <<point_lat, point_lon, score, species>>
    accepted,  \* history: the <<y, x>> pixel each selected point came from
    env,       \* <<ndvi_base, water, soil>> of generate_points_grid
    grid,      \* grid returned by generate_grid inside generate_points_grid
    points,    \* list under construction / returned by the generator
    plan,      \* st.session_state.points after the handler's truncation
    uargs,     \* arguments of a direct call of one of the pure functions
    uret       \* its return value

vars == <<pc, rng, useMl, lat, lon, raster, numPoints, target, cands, idx,
          selected, accepted, env, grid, points, plan, uargs, uret>>

\* suitability_data=None
NoRaster == [given |-> FALSE, shape |-> << >>, px |-> << >>]

-----------------------------------------------------------------------------
(* Arithmetic helpers *)

Abs(a) == IF a < 0 THEN -a ELSE a

Min2(a, b) == IF a < b THEN a ELSE b

Max2(a, b) == IF a > b THEN a ELSE b

\* a / b rounded to the nearest integer (b > 0)
RoundDiv(a, b) == (2 * a + b) \div (2 * b)

\* round(v, k) of Python: to the nearest multiple of step, ties to even;
\* the result is expressed in multiples of step
RoundHalfEven(v, step) ==
    LET q == v \div step
        r == v % step
    IN  IF 2 * r > step THEN q + 1
        ELSE IF 2 * r < step THEN q
        ELSE IF q % 2 = 0 THEN q ELSE q + 1

RECURSIVE IsqrtBetween(_, _, _)
IsqrtBetween(n, lo, hi) ==
    IF lo >= hi THEN lo
    ELSE LET mid == (lo + hi + 1) \div 2
         IN  IF mid * mid <= n THEN IsqrtBetween(n, mid, hi)
             ELSE IsqrtBetween(n, lo, mid - 1)

\* floor of the square root, 0 <= n <= 10^8
Isqrt(n) == IsqrtBetween(n, 0, 10000)

\* the sequence << f[lo], ..., f[hi] >>, each element evaluated once
RECURSIVE Tabulate(_, _, _)
Tabulate(f, lo, hi) ==
    IF lo > hi THEN << >>
    ELSE IF lo = hi THEN << f[lo] >>
    ELSE LET mid == (lo + hi) \div 2
         IN  Tabulate(f, lo, mid) \o Tabulate(f, mid + 1, hi)

Reverse(s) == [k \in 1..Len(s) |-> s[Len(s) + 1 - k]]

\* s[:n] of Python, n >= 0
Take(s, n) == SubSeq(s, 1, Min2(n, Len(s)))

-----------------------------------------------------------------------------
(* The random source: random.random() as a 16-bit linear congruential       *)
(* generator; random.uniform(a, b) is a + (b - a) * random().               *)

RngStep(r) == (25173 * r + 13849) % 65536

Uniform(r, lo, hi) == lo + ((hi - lo) * r) \div 65536

-----------------------------------------------------------------------------
(* src/optimization/suitability.py *)

ClampScoreMissing(score) == score

\* max(0, min(100, score)) on the unrounded score
ClampScore(score) == Max2(0, Min2(100000, score))

\* compute_suitability with the value jitter drawn by random.uniform(-5, 5);
\* the result is in tenths of a point
ComputeSuitability(ndvi, water, soil, jitter) ==
    RoundHalfEven(ClampScore((ndvi * 4 + water * 3 + soil * 3) + jitter), 100)

-----------------------------------------------------------------------------
(* src/recommendation/species.py *)

ExcellentSpecies ==
    << "Neem (Azadirachta indica)", "Bamboo", "Peepal (Ficus religiosa)",
       "Banyan (Ficus benghalensis)", "Arjun (Terminalia arjuna)" >>

GoodSpecies ==
    << "Babool (Acacia nilotica)", "Khejri (Prosopis cineraria)",
       "Ber (Ziziphus mauritiana)", "Amaltas (Cassia fistula)" >>

ModerateSpecies ==
    << "Babool", "Khejri", "Dhak (Butea monosperma)", "Khair (Acacia catechu)" >>

HardySpecies == << "Babool", "Khejri", "Date Palm" >>

RecommendSpeciesInclusive(ndvi, water, soil) ==
    IF ndvi >= 7000 /\ water >= 6000 /\ soil >= 7000 THEN ExcellentSpecies
    ELSE IF ndvi >= 5000 /\ water >= 4000 /\ soil >= 5000 THEN GoodSpecies
    ELSE IF ndvi >= 3000 /\ water >= 3000 THEN ModerateSpecies
    ELSE HardySpecies

RecommendSpecies(ndvi, water, soil) ==
    IF ndvi > 7000 /\ water > 6000 /\ soil > 7000 THEN ExcellentSpecies
    ELSE IF ndvi > 5000 /\ water > 4000 /\ soil > 5000 THEN GoodSpecies
    ELSE IF ndvi > 3000 /\ water > 3000 THEN ModerateSpecies
    ELSE HardySpecies

-----------------------------------------------------------------------------
(* src/optimization/grid.py *)

\* 10^4 * cos(2*pi*k/100), k = 0..99, to the nearest integer
CosTab ==
    << 10000, 9980, 9921, 9823, 9686, 9511, 9298, 9048, 8763, 8443,
       8090, 7705, 7290, 6845, 6374, 5878, 5358, 4818, 4258, 3681,
       3090, 2487, 1874, 1253, 628, 0, -628, -1253, -1874, -2487,
       -3090, -3681, -4258, -4818, -5358, -5878, -6374, -6845, -7290, -7705,
       -8090, -8443, -8763, -9048, -9298, -9511, -9686, -9823, -9921, -9980,
       -10000, -9980, -9921, -9823, -9686, -9511, -9298, -9048, -8763, -8443,
       -8090, -7705, -7290, -6845, -6374, -5878, -5358, -4818, -4258, -3681,
       -3090, -2487, -1874, -1253, -628, 0, 628, 1253, 1874, 2487,
       3090, 3681, 4258, 4818, 5358, 5878, 6374, 6845, 7290, 7705,
       8090, 8443, 8763, 9048, 9298, 9511, 9686, 9823, 9921, 9980 >>

\* math.cos(2*pi*i/n) and math.sin(2*pi*i/n) times 10^4, for n dividing 100
Cos(i, n) == CosTab[((i * (100 \div n)) % 100) + 1]

Sin(i, n) == CosTab[((i * (100 \div n) + 75) % 100) + 1]

\* radius * math.sqrt(i / n)
SpiralRadius(radius, i, n) ==
    RoundDiv(radius * Isqrt(((i * 1000000) \div n) * 100), 10000)

GridPoint(clat, clon, radius, i, n) ==
    LET r == SpiralRadius(radius, i, n)
    IN  << clat + RoundDiv(r * Cos(i, n), 10000),
           clon + RoundDiv(r * Sin(i, n), 10000) >>

GenerateGridInclusive(clat, clon, radius, n) ==
    [k \in 1..n |-> GridPoint(clat, clon, radius, k, n)]

\* generate_grid(lat, lon, radius, points): for i in range(points)
GenerateGrid(clat, clon, radius, n) ==
    [k \in 1..n |-> GridPoint(clat, clon, radius, k - 1, n)]


-----------------------------------------------------------------------------
(* src/app.py: generate_points_from_suitability *)

\* min_pixel_spacing
MinPixelSpacing == 15

\* num_points passed by generate_plantation_points_ml
MlNumPoints == 100

\* the [:100] of generate_points_grid
GridCap == 100

ShapeAtLeast2D(r) == Len(r.shape) >= 2

\* line 123: height, width = suitability_map.shape unpacks exactly two
\* dimensions; any other number of them raises ValueError
ShapeUnpacks(r) == Len(r.shape) = 2

Height(r) == r.shape[1]

Width(r) == r.shape[2]

\* suitability_map[y, x], 0-based
Pixel(r, y, x) == r.px[y + 1][x + 1]

\* coordinates of all pixels in row-major order (the order of np.argwhere)
AllPixels(r) ==
    Tabulate([k \in 1..(Height(r) * Width(r)) |->
                 << (k - 1) \div Width(r), (k - 1) % Width(r) >>],
             1, Height(r) * Width(r))

\* np.argwhere(suitability_map > thr)
SuitableCoords(r, thr) ==
    SelectSeq(AllPixels(r), LAMBDA p : Pixel(r, p[1], p[2]) > thr)

\* lines 126-134: mask at 50, relaxed once to 30 when nothing qualifies
SuitableNoRelax(r) == SuitableCoords(r, 500)

Suitable(r) ==
    IF Len(SuitableCoords(r, 500)) = 0 THEN SuitableCoords(r, 300)
    ELSE SuitableCoords(r, 500)

\* np.argsort(scores): indices in ascending score order.  The default kind
\* is not stable, so the order of equal scores is one of the orders a build
\* may produce: ties = "stable" keeps equal scores in index order (what a
\* stable kind gives), ties = "reversed" puts them in decreasing index order.
ArgSort(scores, ties) ==
    LET n == Len(scores)
        Precedes(j, k) ==
            \/ scores[j] < scores[k]
            \/ /\ scores[j] = scores[k]
               /\ IF ties = "stable" THEN j < k ELSE j > k
        rank == Tabulate([k \in 1..n |->
                   Cardinality({j \in 1..n : Precedes(j, k)}) + 1], 1, n)
    IN  Tabulate([p \in 1..n |-> CHOOSE k \in 1..n : rank[k] = p], 1, n)

TieOrders == {"stable", "reversed"}

SortedCandidatesAscending(r, ties) ==
    LET coords == Suitable(r)
        scores == Tabulate([k \in 1..Len(coords) |->
                     Pixel(r, coords[k][1], coords[k][2])], 1, Len(coords))
        order  == ArgSort(scores, ties)
    IN  [k \in 1..Len(order) |->
            << coords[order[k]][1], coords[order[k]][2], scores[order[k]] >>]

\* lines 136-139: np.argsort(suitable_scores)[::-1] applied to coords and scores
SortedCandidates(r, ties) ==
    LET coords == Suitable(r)
        scores == Tabulate([k \in 1..Len(coords) |->
                     Pixel(r, coords[k][1], coords[k][2])], 1, Len(coords))
        order  == Reverse(ArgSort(scores, ties))
    IN  [k \in 1..Len(order) |->
            << coords[order[k]][1], coords[order[k]][2], scores[order[k]] >>]

\* sqrt(a^2 + b^2) < lim for a, b given in millionths and lim a whole number.
\* a^2 + b^2 does not fit the integer width, so the squares are formed from
\* the thousands and the remainders of a and b.
HypotLess(a, b, lim) ==
    /\ Abs(a) < lim * 1000000
    /\ Abs(b) < lim * 1000000
    /\ LET ah == Abs(a) \div 1000
           al == Abs(a) % 1000
           bh == Abs(b) \div 1000
           bl == Abs(b) % 1000
           millions == ah * ah + bh * bh
                        + (2 * ah * al + 2 * bh * bl
                             + (al * al + bl * bl) \div 1000) \div 1000
       IN  millions < lim * lim * 1000000

\* lines 151-153: (prev_y, prev_x, _, _) unpacks the first two fields of a
\* selected point, which line 173 filled with point_lat and point_lon; the
\* distance is taken between the pixel (y, x) and those two numbers
TooClose(y, x, p) ==
    HypotLess(y * 1000000 - p[1], x * 1000000 - p[2], MinPixelSpacing)

\* lines 150-155
TooCloseToAny(y, x, sel) == {k \in 1..Len(sel) : TooClose(y, x, sel[k])} # {}

\* lines 159-163
PixelLat(clat, y, h) == clat + (RoundDiv(y * 10000, h) - 5000)

PixelLon(clon, x, w) == clon + (RoundDiv(x * 10000, w) - 5000)

\* line 167: min(1.0, score / 100.0)
RasterNdvi(score) == Min2(10000, score * 10)

\* line 164: the raster value is the point's score
RasterScore(v) == v

\* lines 180-188
AsDict(p) == [lat |-> p[1], lon |-> p[2], score |-> p[3], species |-> p[4]]

-----------------------------------------------------------------------------
(* src/app.py: generate_points_grid *)

\* round(random.uniform(lo, hi), 2)
Round2(v) == RoundHalfEven(v, 100) * 100

\* line 201: max(0, min(1, ndvi_base + random.uniform(-0.1, 0.1)))
LocalNdvi(base, offset) == Max2(0, Min2(10000, base + offset))

\* list.sort(key=score, reverse=True): descending, equal scores keep their order
SortUnsorted(ps) == ps

SortByScoreDesc(ps) ==
    LET n == Len(ps)
        Precedes(j, k) ==
            \/ ps[j].score > ps[k].score
            \/ ps[j].score = ps[k].score /\ j < k
        rank == Tabulate([k \in 1..n |->
                   Cardinality({j \in 1..n : Precedes(j, k)}) + 1], 1, n)
    IN  Tabulate([p \in 1..n |-> ps[CHOOSE k \in 1..n : rank[k] = p]], 1, n)

-----------------------------------------------------------------------------
(* Inputs *)

\* number of seeds of the random source that are tried
NumSeeds == 2

\* width of the one-row ramp raster
RampWidth == 104

\* side of the square field raster
FieldSize == 18

Seeds == {(s * 7919) % 65536 : s \in 1..NumSeeds}

\* st.slider("Number of plantation points", 50, 200, 100, 10)
SliderValues == {50 + 10 * k : k \in 0..15}

\* centers: the origin, a point whose degrees fall inside the field raster's
\* pixel range, and New Delhi
Centers == { <<0, 0>>, <<5000000, 10000000>>, <<28613900, 77209000>> }

\* centers of the map clicks
ClickCenters == { <<0, 0>>, <<28613900, 77209000>> }

MkRaster(h, w, V(_, _)) ==
    [given |-> TRUE, shape |-> <<h, w>>,
     px |-> [y \in 1..h |-> [x \in 1..w |-> V(y - 1, x - 1)]]]

RampValue(y, x) == 510 + ((x * 7) % 40) * 10

FieldValue(y, x) == ((y * 7 + x * 13) % 10) * 100

RPair  == [given |-> TRUE, shape |-> <<1, 2>>, px |-> << <<600, 700>> >>]

RLow   == [given |-> TRUE, shape |-> <<2, 3>>,
           px |-> << <<300, 250, 0>>, <<120, 300, 299>> >>]

RRelax == [given |-> TRUE, shape |-> <<2, 3>>,
           px |-> << <<310, 500, 350>>, <<450, 301, 400>> >>]

RMixed == [given |-> TRUE, shape |-> <<1, 3>>, px |-> << <<200, 400, 300>> >>]

ROut   == [given |-> TRUE, shape |-> <<1, 3>>, px |-> << <<1500, -50, 800>> >>]

RTies  == [given |-> TRUE, shape |-> <<2, 2>>,
           px |-> << <<600, 600>>, <<600, 550>> >>]

RRamp  == MkRaster(1, RampWidth, RampValue)

RField == MkRaster(FieldSize, FieldSize, FieldValue)

\* arrays that are not 2-D grids: a vector, and a 2x2 image with three
\* channels (px holds its first channel)
RVector == [given |-> TRUE, shape |-> << 4 >>, px |-> << 600, 700, 200, 100 >>]

RCube   == [given |-> TRUE, shape |-> <<2, 2, 3>>,
            px |-> << <<600, 200>>, <<100, 700>> >>]

MalformedRasters == {RVector, RCube}

Rasters == {RPair, RLow, RRelax, RMixed, ROut, RTies, RRamp, RField}
               \cup MalformedRasters

\* rasters tried while the ML backend is missing
RastersWithoutMl == {RLow, RPair}

\* target counts of direct calls of the raster-driven generator
TargetCounts == {0, 1, 2, MlNumPoints}

-----------------------------------------------------------------------------
(* src/app.py: the map-click handler and the generators, step by step *)

UseRasterAlways(r, ml) == r.given

\* line 109: suitability_data is not None and USE_ML_BACKEND
UseRaster(r, ml) == r.given /\ ml

\* lines 387-416 and 106-116: the handler draws the three environmental
\* proxies, then generate_plantation_points_ml picks the generator
Click ==
    /\ pc = "idle"
    /\ rng' = RngStep(RngStep(RngStep(rng)))
    /\ IF UseRaster(raster, useMl)
          THEN /\ target' = MlNumPoints
               /\ pc' = "raster_select"
          ELSE /\ target' = target
               /\ pc' = "grid_init"
    /\ UNCHANGED <<useMl, lat, lon, raster, numPoints, cands, idx, selected,
                   accepted, env, grid, points, plan, uargs, uret>>

\* lines 123-143: threshold, relaxation, sort, empty selection
RasterSelect ==
    /\ pc = "raster_select"
    /\ ShapeUnpacks(raster)
    /\ \E ties \in TieOrders : cands' = SortedCandidates(raster, ties)
    /\ idx' = 0
    /\ selected' = << >>
    /\ accepted' = << >>
    /\ pc' = "raster_loop"
    /\ UNCHANGED <<rng, useMl, lat, lon, raster, numPoints, target, env, grid,
                   points, plan, uargs, uret>>

\* line 123 with an array that is not 2-D: the unpacking raises ValueError,
\* which nothing between here and the click handler catches
RasterRaise ==
    /\ pc = "raster_select"
    /\ ~ShapeUnpacks(raster)
    /\ pc' = "raised"
    /\ UNCHANGED <<rng, useMl, lat, lon, raster, numPoints, target, cands, idx,
                   selected, accepted, env, grid, points, plan, uargs, uret>>

\* lines 145-178, one iteration in which the pixel passes the spacing check
RasterAccept ==
    /\ pc = "raster_loop"
    /\ idx < Len(cands)
    /\ Len(selected) < target
    /\ LET c     == cands[idx + 1]
           r1    == RngStep(rng)
           r2    == RngStep(r1)
           score == RasterScore(c[3])
           water == Uniform(r1, 4000, 8000)
           soil  == Uniform(r2, 5000, 9000)
       IN  /\ ~TooCloseToAny(c[1], c[2], selected)
           /\ selected' = Append(selected,
                  << PixelLat(lat, c[1], Height(raster)),
                     PixelLon(lon, c[2], Width(raster)),
                     score,
                     RecommendSpecies(RasterNdvi(score), water, soil) >>)
           /\ accepted' = Append(accepted, << c[1], c[2] >>)
           /\ rng' = r2
    /\ idx' = idx + 1
    /\ UNCHANGED <<pc, useMl, lat, lon, raster, numPoints, target, cands, env,
                   grid, points, plan, uargs, uret>>

\* lines 145-157, one iteration in which the pixel is too close
RasterReject ==
    /\ pc = "raster_loop"
    /\ idx < Len(cands)
    /\ Len(selected) < target
    /\ TooCloseToAny(cands[idx + 1][1], cands[idx + 1][2], selected)
    /\ idx' = idx + 1
    /\ UNCHANGED <<pc, rng, useMl, lat, lon, raster, numPoints, target, cands,
                   selected, accepted, env, grid, points, plan, uargs, uret>>

\* lines 146-147 and 180-188: the loop ends and the dicts are returned
RasterReturn ==
    /\ pc = "raster_loop"
    /\ (idx >= Len(cands) \/ Len(selected) >= target)
    /\ points' = [k \in 1..Len(selected) |-> AsDict(selected[k])]
    /\ pc' = "returned"
    /\ UNCHANGED <<rng, useMl, lat, lon, raster, numPoints, target, cands, idx,
                   selected, accepted, env, grid, plan, uargs, uret>>

\* lines 193-198
GridInit ==
    /\ pc = "grid_init"
    /\ LET r1 == RngStep(rng)
           r2 == RngStep(r1)
           r3 == RngStep(r2)
       IN  /\ env' = << Round2(Uniform(r1, 4000, 9000)),
                        Round2(Uniform(r2, 3000, 8000)),
                        Round2(Uniform(r3, 4000, 9000)) >>
           /\ rng' = r3
    /\ grid' = GenerateGrid(lat, lon, 10000, 100)
    /\ points' = << >>
    /\ idx' = 0
    /\ pc' = "grid_loop"
    /\ UNCHANGED <<useMl, lat, lon, raster, numPoints, target, cands, selected,
                   accepted, plan, uargs, uret>>

\* lines 200-210, one iteration
GridStep ==
    /\ pc = "grid_loop"
    /\ idx < Len(grid)
    /\ LET r1         == RngStep(rng)
           r2         == RngStep(r1)
           local_ndvi == LocalNdvi(env[1], Uniform(r1, -1000, 1000))
           score      == ComputeSuitability(local_ndvi, env[2], env[3],
                                            Uniform(r2, -5000, 5000))
       IN  /\ points' = Append(points,
                  [lat |-> grid[idx + 1][1], lon |-> grid[idx + 1][2],
                   score |-> score,
                   species |-> RecommendSpecies(local_ndvi, env[2], env[3])])
           /\ rng' = r2
    /\ idx' = idx + 1
    /\ UNCHANGED <<pc, useMl, lat, lon, raster, numPoints, target, cands,
                   selected, accepted, env, grid, plan, uargs, uret>>

\* lines 212-213
GridReturn ==
    /\ pc = "grid_loop"
    /\ idx >= Len(grid)
    /\ points' = Take(SortByScoreDesc(points), GridCap)
    /\ pc' = "returned"
    /\ UNCHANGED <<rng, useMl, lat, lon, raster, numPoints, target, cands, idx,
                   selected, accepted, env, grid, plan, uargs, uret>>

TruncateNone(ps, n) == ps

\* lines 118 and 417-419: points = points[:num_points]
Truncate(ps, n) == Take(ps, n)

HandlerFinish ==
    /\ pc = "returned"
    /\ plan' = Truncate(points, numPoints)
    /\ pc' = "done"
    /\ UNCHANGED <<rng, useMl, lat, lon, raster, numPoints, target, cands, idx,
                   selected, accepted, env, grid, points, uargs, uret>>

\* what no call has touched yet
Untouched ==
    /\ target = 0
    /\ cands = << >>
    /\ idx = 0
    /\ selected = << >>
    /\ accepted = << >>
    /\ env = << >>
    /\ grid = << >>
    /\ points = << >>
    /\ plan = << >>
    /\ uret = << >>

\* a map click with the session state of init_session_state
Init ==
    /\ pc = "idle"
    /\ rng \in Seeds
    /\ useMl \in BOOLEAN
    /\ \E c \in ClickCenters : lat = c[1] /\ lon = c[2]
    /\ raster \in (IF useMl THEN Rasters ELSE RastersWithoutMl) \cup {NoRaster}
    /\ numPoints \in SliderValues
    /\ uargs = << >>
    /\ Untouched

Next ==
    \/ Click
    \/ RasterSelect
    \/ RasterRaise
    \/ RasterAccept
    \/ RasterReject
    \/ RasterReturn
    \/ GridInit
    \/ GridStep
    \/ GridReturn
    \/ HandlerFinish

Spec == Init /\ [][Next]_vars

-----------------------------------------------------------------------------
(* A direct call of generate_points_from_suitability *)

InitRaster ==
    /\ pc = "raster_select"
    /\ rng \in Seeds
    /\ useMl = TRUE
    /\ \E c \in Centers : lat = c[1] /\ lon = c[2]
    /\ raster \in Rasters
    /\ numPoints = 100
    /\ \E t \in TargetCounts :
          /\ uargs = << t >>
          /\ target = t
    /\ cands = << >>
    /\ idx = 0
    /\ selected = << >>
    /\ accepted = << >>
    /\ env = << >>
    /\ grid = << >>
    /\ points = << >>
    /\ plan = << >>
    /\ uret = << >>

NextRaster ==
    \/ RasterSelect
    \/ RasterRaise
    \/ RasterAccept
    \/ RasterReject
    \/ RasterReturn

SpecRaster == InitRaster /\ [][NextRaster]_vars

-----------------------------------------------------------------------------
(* Direct calls of the three functions of src/ *)

\* every variable the plan pipeline uses, in the state before any click
PipelineIdle ==
    /\ rng = 0
    /\ useMl = FALSE
    /\ lat = 0
    /\ lon = 0
    /\ raster = NoRaster
    /\ numPoints = 100
    /\ Untouched

\* factor values inside and outside [0, 1]
FactorValues == {-20000, -1, 0, 2500, 5000, 7500, 10000, 10001, 30000}

\* draws of random.uniform(-5, 5)
JitterDraws == {-5000, -4999, -1250, -50, 0, 49, 50, 51, 1250, 4999, 5000}

InitSuitability ==
    /\ pc = "call_suitability"
    /\ uargs \in FactorValues \X FactorValues \X FactorValues
    /\ PipelineIdle

\* compute_suitability(ndvi, water, soil)
CallComputeSuitability ==
    /\ pc = "call_suitability"
    /\ \E jitter \in JitterDraws :
          uret' = << jitter,
                     ComputeSuitability(uargs[1], uargs[2], uargs[3], jitter) >>
    /\ pc' = "returned_suitability"
    /\ UNCHANGED <<rng, useMl, lat, lon, raster, numPoints, target, cands, idx,
                   selected, accepted, env, grid, points, plan, uargs>>

SpecSuitability == InitSuitability /\ [][CallComputeSuitability]_vars

\* factor values on, just below and just above the tier thresholds
ThresholdValues ==
    {-500, 2000, 2999, 3000, 3001, 4000, 4001, 5000, 5001, 6000, 6001,
     7000, 7001, 8000, 12000}

InitSpecies ==
    /\ pc = "call_species"
    /\ uargs \in ThresholdValues \X ThresholdValues \X ThresholdValues
    /\ PipelineIdle

\* recommend_species(ndvi, water, soil)
CallRecommendSpecies ==
    /\ pc = "call_species"
    /\ uret' = RecommendSpecies(uargs[1], uargs[2], uargs[3])
    /\ pc' = "returned_species"
    /\ UNCHANGED <<rng, useMl, lat, lon, raster, numPoints, target, cands, idx,
                   selected, accepted, env, grid, points, plan, uargs>>

SpecSpecies == InitSpecies /\ [][CallRecommendSpecies]_vars

GridCenters == Centers \cup { <<-33868800, 151209300>> }

GridRadii == {0, 10000, 20000}

\* counts whose angles 2*pi*i/count are entries of CosTab
GridCounts == {0, 1, 2, 4, 5, 10, 20, 25, 50, 100}

InitGrid ==
    /\ pc = "call_grid"
    /\ \E c \in GridCenters, radius \in GridRadii, n \in GridCounts :
          uargs = << c[1], c[2], radius, n >>
    /\ PipelineIdle

\* generate_grid(lat, lon, radius, points)
CallGenerateGrid ==
    /\ pc = "call_grid"
    /\ uret' = GenerateGrid(uargs[1], uargs[2], uargs[3], uargs[4])
    /\ pc' = "returned_grid"
    /\ UNCHANGED <<rng, useMl, lat, lon, raster, numPoints, target, cands, idx,
                   selected, accepted, env, grid, points, plan, uargs>>

SpecGrid == InitGrid /\ [][CallGenerateGrid]_vars

-----------------------------------------------------------------------------
(* Properties *)

\* C3: compute_suitability returns a score in [0, 100] for all vegetation,
\* water and soil values, also those below 0 and above 1, and every jitter
\* draw in [-5, +5].
SuitabilityInRange ==
    pc = "returned_suitability" => uret[2] \in 0..1000

\* C3 witness: a call with all factors far above 1 and the largest jitter
\* has returned, clamped to 100
SuitabilityClampedHigh ==
    /\ pc = "returned_suitability"
    /\ uargs = << 30000, 30000, 30000 >>
    /\ uret = << 5000, 1000 >>

Excellent(v, w, s) == v > 7000 /\ w > 6000 /\ s > 7000

Good(v, w, s) == v > 5000 /\ w > 4000 /\ s > 5000

Moderate(v, w) == v > 3000 /\ w > 3000

\* C4: recommend_species returns the list of the first tier, top-down, whose
\* strict thresholds all hold (5, 4, 4 and 3 species), and an input exactly
\* on a threshold of a tier never gets that tier; (0.7, 0.6, 0.7) gets the
\* good tier.
SpeciesFirstMatchingTier ==
    pc = "returned_species" =>
        LET v == uargs[1]
            w == uargs[2]
            s == uargs[3]
        IN  /\ Excellent(v, w, s) => uret = ExcellentSpecies /\ Len(uret) = 5
            /\ ~Excellent(v, w, s) /\ Good(v, w, s) =>
                   uret = GoodSpecies /\ Len(uret) = 4
            /\ ~Excellent(v, w, s) /\ ~Good(v, w, s) /\ Moderate(v, w) =>
                   uret = ModerateSpecies /\ Len(uret) = 4
            /\ ~Excellent(v, w, s) /\ ~Good(v, w, s) /\ ~Moderate(v, w) =>
                   uret = HardySpecies /\ Len(uret) = 3
            /\ (v = 7000 \/ w = 6000 \/ s = 7000) => uret # ExcellentSpecies
            /\ (v = 5000 \/ w = 4000 \/ s = 5000) => uret # GoodSpecies
            /\ (v = 3000 \/ w = 3000) => uret # ModerateSpecies
            /\ (v = 7000 /\ w = 6000 /\ s = 7000) => uret = GoodSpecies

\* C4 witness: the call on the excellent thresholds has returned the good tier
SpeciesBoundaryReturned ==
    /\ pc = "returned_species"
    /\ uargs = << 7000, 6000, 7000 >>
    /\ uret = GoodSpecies

\* squared distance of point p from the center of the call
GridDist2(p) ==
    (p[1] - uargs[1]) * (p[1] - uargs[1]) + (p[2] - uargs[2]) * (p[2] - uargs[2])

PixelDist2(p, q) ==
    (p[1] - q[1]) * (p[1] - q[1]) + (p[2] - q[2]) * (p[2] - q[2])

\* C1: at every step of the greedy walk, every two distinct accepted pixels
\* of the raster-driven generator are at least min_pixel_spacing apart on
\* the pixel grid.
SpacingEnforced ==
    \A i, j \in 1..Len(accepted) :
        i # j => PixelDist2(accepted[i], accepted[j])
                     >= MinPixelSpacing * MinPixelSpacing

\* some pixel of raster r scores above 30
HasPixelAbove30(r) ==
    \E y \in 1..Height(r), x \in 1..Width(r) : r.px[y][x] > 300

\* C2: the plan the click handler stores never has more than countCap
\* points, for every slider value and on both generator paths.
PlanWithinCap ==
    pc = "done" => Len(plan) <= numPoints

\* C2 witness: the raster path returned more points than the slider allows
\* and the handler cut the plan to the slider value
PlanCutToCap ==
    /\ pc = "done"
    /\ UseRaster(raster, useMl)
    /\ Len(points) > numPoints
    /\ Len(plan) = numPoints

\* C5: with target_count >= 1 the raster-driven generator returns a
\* non-empty list exactly when some pixel scores above 30.
NonEmptyIffAbove30 ==
    (pc = "returned" /\ target >= 1) =>
        ((Len(points) >= 1) <=> HasPixelAbove30(raster))

\* C5 witness: a raster with every value in (30, 50] has yielded a point
RelaxedRasterYieldsPoint ==
    /\ pc = "returned"
    /\ raster = RRelax
    /\ SuitableCoords(raster, 500) = << >>
    /\ Len(points) >= 1

\* the generator a finished or running call went through
TookRaster ==
    \/ pc \in {"raster_select", "raster_loop", "raised"}
    \/ pc \in {"returned", "done"} /\ env = << >>

TookSpiral ==
    \/ pc \in {"grid_init", "grid_loop"}
    \/ pc \in {"returned", "done"} /\ env # << >>

\* C6 as stated: the raster-driven strategy is taken whenever a raster is
\* supplied, the spiral strategy only when none is, and a supplied raster
\* with all values <= 30 gives an empty plan.
RasterStrategyWheneverSupplied ==
    pc # "idle" =>
        /\ raster.given => TookRaster
        /\ TookSpiral => ~raster.given
        /\ (pc = "done" /\ raster.given /\ ~HasPixelAbove30(raster)) =>
               plan = << >>

\* C6 amended: the raster-driven strategy is taken exactly when a raster is
\* supplied and the ML backend is available, the spiral strategy otherwise;
\* with the backend available a supplied raster with all values <= 30 gives
\* an empty plan.
RasterStrategyWhenSuppliedAndMl ==
    pc # "idle" =>
        /\ (raster.given /\ useMl) <=> TookRaster
        /\ ~(raster.given /\ useMl) <=> TookSpiral
        /\ (pc = "done" /\ raster.given /\ useMl /\ ~HasPixelAbove30(raster)) =>
               plan = << >>

\* C6 witness: with the backend available a raster of values <= 30 has given
\* an empty plan through the raster-driven generator
LowRasterGivesEmptyPlan ==
    /\ pc = "done"
    /\ raster = RLow
    /\ useMl
    /\ TookRaster
    /\ plan = << >>

NonIncreasing(ps) ==
    \A i, j \in 1..Len(ps) : i < j => ps[i].score >= ps[j].score

\* C7: on both paths the returned points are in non-increasing score order
\* before the cap is applied and the plan is their prefix, so the plan is in
\* non-increasing score order and only lowest-scored points are cut.
PlanSortedByScore ==
    /\ pc \in {"returned", "done"} => NonIncreasing(points)
    /\ pc = "done" =>
          /\ NonIncreasing(plan)
          /\ plan = SubSeq(points, 1, Len(plan))
          /\ \A i \in 1..Len(plan), j \in (Len(plan) + 1)..Len(points) :
                plan[i].score >= points[j].score

\* C7 witness: a fallback plan with different scores has been cut by the cap
SortedFallbackPlanCut ==
    /\ pc = "done"
    /\ TookSpiral
    /\ Len(plan) < Len(points)
    /\ plan[1].score > plan[Len(plan)].score
    /\ plan[Len(plan)].score > points[Len(points)].score

\* C8: every point of every returned plan has a score in [0, 100] and a
\* non-empty species list.
PlanPointsValid ==
    pc = "done" =>
        \A k \in 1..Len(plan) :
            /\ plan[k].score \in 0..1000
            /\ Len(plan[k].species) >= 1

\* a point with its four fields filled in
WellFormedPoint(p) ==
    /\ DOMAIN p = {"lat", "lon", "score", "species"}
    /\ p.lat \in Int
    /\ p.lon \in Int
    /\ p.score \in Int
    /\ Len(p.species) >= 1

\* C11: a call never yields a partial result.  The stored plan stays empty
\* until the call ends; a call that ends normally went through the whole
\* generator (the raster walk ran to the end of the candidates or to the
\* target, the fallback scored all 100 grid points) and stores the capped
\* list of well-formed points; a call ends with the error only for a
\* supplied raster that is not 2-D, before any point exists, and with the
\* raster-driven strategy such a raster never gives a plan.
NoPartialPlan ==
    /\ pc # "done" => plan = << >>
    /\ pc = "done" =>
          /\ plan = Take(points, numPoints)
          /\ \A k \in 1..Len(plan) : WellFormedPoint(plan[k])
          /\ TookRaster =>
                /\ Len(points) = Len(selected)
                /\ idx >= Len(cands) \/ Len(selected) >= target
          /\ TookSpiral => idx = Len(grid) /\ Len(points) = Len(grid)
    /\ pc = "raised" =>
          /\ raster.given
          /\ Len(raster.shape) # 2
          /\ selected = << >>
          /\ points = << >>
    /\ (UseRaster(raster, useMl) /\ raster \in MalformedRasters) =>
          pc \in {"idle", "raster_select", "raised"}

\* C11 witness: the call with the three-channel image has raised
MalformedRasterRaised ==
    /\ pc = "raised"
    /\ raster = RCube
    /\ plan = << >>

\* position of pixel (y, x) in the row-major scan of raster r
RowMajor(r, y, x) == y * Width(r) + x

\* the candidate list exists
Walking == pc \in {"raster_loop", "returned"}

\* position in cands of the pixel px
CandPos(px) == CHOOSE k \in 1..Len(cands) : << cands[k][1], cands[k][2] >> = px

\* the scores of the candidate list never increase
CandsDescending ==
    \A i \in 1..(Len(cands) - 1) : cands[i][3] >= cands[i + 1][3]

\* C12 as stated: candidates are considered in descending score order and
\* candidates of equal score in encounter (row-major) order.
TiesInEncounterOrder ==
    Walking =>
        /\ CandsDescending
        /\ \A i \in 1..(Len(cands) - 1) :
              cands[i][3] = cands[i + 1][3] =>
                  RowMajor(raster, cands[i][1], cands[i][2])
                      < RowMajor(raster, cands[i + 1][1], cands[i + 1][2])

\* C12 amended: the candidate list holds every qualifying pixel exactly once
\* with its raster value, in descending score order, and the walk considers
\* the candidates in list order, so the accepted pixels are candidates
\* already considered, in list order; the order of equal scores is left open.
ConsideredInDescendingScoreOrder ==
    Walking =>
        /\ CandsDescending
        /\ LET coords == Suitable(raster)
           IN  /\ Len(cands) = Len(coords)
               /\ { << cands[k][1], cands[k][2] >> : k \in 1..Len(cands) }
                     = { coords[k] : k \in 1..Len(coords) }
        /\ \A k \in 1..Len(cands) :
              cands[k][3] = Pixel(raster, cands[k][1], cands[k][2])
        /\ idx <= Len(cands)
        /\ Len(accepted) >= 1 => CandPos(accepted[Len(accepted)]) <= idx
        /\ \A a \in 1..(Len(accepted) - 1) :
              CandPos(accepted[a]) < CandPos(accepted[a + 1])

\* C12 witness: the walk over the raster with three pixels of score 60 has
\* ended, having considered the last-encountered of them first
LaterTieConsideredFirst ==
    /\ pc = "returned"
    /\ raster = RTies
    /\ cands[1] = << 1, 0, 600 >>
    /\ cands[3] = << 0, 0, 600 >>
    /\ Len(accepted) >= 1
    /\ accepted[1] = << 1, 0 >>

\* C13: the highest-scoring qualifying pixel is always accepted, and when
\* fewer than target_count points are returned every qualifying pixel that
\* was not accepted is closer than min_pixel_spacing, on the pixel grid, to
\* an accepted pixel considered before it.
GreedyMaximal ==
    (pc = "returned" /\ target >= 1) =>
        /\ Len(cands) >= 1 =>
              /\ Len(accepted) >= 1
              /\ accepted[1] = << cands[1][1], cands[1][2] >>
              /\ \A k \in 1..Len(cands) : cands[1][3] >= cands[k][3]
        /\ Len(points) < target =>
              \A k \in 1..Len(cands) :
                  LET px == << cands[k][1], cands[k][2] >>
                  IN  \/ \E a \in 1..Len(accepted) : accepted[a] = px
                      \/ \E a \in 1..Len(accepted) :
                            /\ CandPos(accepted[a]) < k
                            /\ PixelDist2(accepted[a], px)
                                  < MinPixelSpacing * MinPixelSpacing

=============================================================================
